---- MODULE Spec2Model ----
(***************************************************************************)
(* A model of the scalable-irl core: the StateGraph (sirl/models/          *)
(* state_graph.py), the PolicyWalk proposal, the BIRL solve loop and the   *)
(* trajectory quality evaluator (sirl/algorithms/birl/base.py and the      *)
(* older sirl/algorithms/graph_birl.py).                                   *)
(*                                                                         *)
(* Each component has its own specification over the shared variables:     *)
(*   Spec        the StateGraph's structural and attribute operations      *)
(*   SpecNbr     the StateGraph's neighbour queries                        *)
(*   SpecPW      PolicyWalkProposal.__call__, one action per loop pass     *)
(*   SpecSolve   construction and solve() of the two solver families       *)
(*   SpecQuality the trajectory quality evaluator, one action per node     *)
(***************************************************************************)
EXTENDS Integers, Sequences, FiniteSets, TLC

VARIABLES
    graph,      \* StateGraph._graph: [nodes, node, edge]
    last,       \* the last StateGraph call: [op, args, out, res]
    pw,         \* a PolicyWalkProposal call in progress
    sv,         \* a BIRL solver: construction and solve()
    qe          \* a trajectory quality evaluation in progress

vars == <<graph, last, pw, sv, qe>>

----------------------------------------------------------------------------
(* Generic helpers                                                         *)

Range(s) == {s[i] : i \in 1..Len(s)}

Idle == [pc |-> "idle"]

\* The sequences that list every element of the finite set S exactly once.
RECURSIVE Perms(_)
Perms(S) ==
    IF S = {} THEN {<<>>}
    ELSE UNION {{<<x>> \o p : p \in Perms(S \ {x})} : x \in S}

\* Python's s[:k] for k >= 0.
Take(s, k) == IF k >= Len(s) THEN s ELSE SubSeq(s, 1, k)

\* The sequence s without the elements equal to x.
Without(s, x) == SelectSeq(s, LAMBDA y : y # x)

----------------------------------------------------------------------------
(* StateGraph                                                              *)

NodeIds == {1, 2}       \* the node identifiers the callers use

state_dim == 2          \* StateGraph._state_dim as constructed here

_node_attrs == {"data", "cost", "priority", "Q", "V", "pi", "type"}
_edge_attrs == {"source", "target", "duration", "reward", "phi", "traj"}

\* The graph after StateGraph.__init__: an empty nx.DiGraph.  nodes is
\* G.nodes() in iteration order, node is G.node (identifier -> attribute
\* dictionary), edge is G.edge flattened to (source, target) -> dictionary.
EmptyGraph == [nodes |-> <<>>, node |-> <<>>, edge |-> <<>>]

HasNode(G, n) == n \in Range(G.nodes)
HasEdge(G, s, t) == <<s, t>> \in DOMAIN G.edge

\* A call's outcome: the graph it leaves, how it ended, what it returned.
Outcome(G, out, res) == [g |-> G, out |-> out, res |-> res]

\* nx.DiGraph.add_node for a node that is absent.
NxAddNode(G, n, attrs) ==
    [G EXCEPT !.nodes = Append(G.nodes, n),
              !.node = [m \in DOMAIN G.node \cup {n} |->
                            IF m = n THEN attrs ELSE G.node[m]]]

\* nx.DiGraph.add_edge for an edge that is absent: endpoints that are not
\* in the graph are created first, source then target, without attributes.
NxAddEdge(G, s, t, attrs) ==
    LET G1 == IF HasNode(G, s) THEN G ELSE NxAddNode(G, s, <<>>)
        G2 == IF HasNode(G1, t) THEN G1 ELSE NxAddNode(G1, t, <<>>)
    IN [G2 EXCEPT !.edge = [e \in DOMAIN G2.edge \cup {<<s, t>>} |->
                               IF e = <<s, t>> THEN attrs ELSE G2.edge[e]]]

add_node(G, nid, data, cost, priority, Q, V, pi, ntype) ==
    IF Len(data) # state_dim
    THEN Outcome(G, "AssertionError", <<>>)
    ELSE IF ~HasNode(G, nid)
    THEN Outcome(NxAddNode(G, nid,
                     [data |-> data, cost |-> cost, priority |-> priority,
                      Q |-> Q, V |-> V, pi |-> pi, type |-> ntype]),
                 "ok", <<>>)
    ELSE Outcome(G, "warning", <<>>)

add_edge_noselfcheck(G, source, target, duration, reward, phi, traj) ==
    IF duration < 0 \/ traj.ndim # 2
    THEN Outcome(G, "AssertionError", <<>>)
    ELSE IF ~HasEdge(G, source, target)
    THEN Outcome(NxAddEdge(G, source, target,
                     [duration |-> duration, reward |-> reward,
                      phi |-> phi, traj |-> traj]),
                 "ok", <<>>)
    ELSE Outcome(G, "warning", <<>>)

add_edge(G, source, target, duration, reward, phi, traj) ==
    IF duration < 0 \/ traj.ndim # 2
    THEN Outcome(G, "AssertionError", <<>>)
    ELSE IF source = target
    THEN Outcome(G, "warning", <<>>)
    ELSE IF ~HasEdge(G, source, target)
    THEN Outcome(NxAddEdge(G, source, target,
                     [duration |-> duration, reward |-> reward,
                      phi |-> phi, traj |-> traj]),
                 "ok", <<>>)
    ELSE Outcome(G, "warning", <<>>)

\* The warning for source == target does not return: nx's remove_edge runs
\* in every case and raises NetworkXError for an edge that is not there.
remove_edge(G, source, target) ==
    IF ~HasEdge(G, source, target)
    THEN Outcome(G, "NetworkXError", <<>>)
    ELSE Outcome([G EXCEPT !.edge = [e \in DOMAIN G.edge \ {<<source, target>>}
                                        |-> G.edge[e]]],
                 (IF source = target THEN "warning" ELSE "ok"), <<>>)

\* nx's remove_node raises for an absent node and drops the incident edges.
remove_node(G, n) ==
    IF ~HasNode(G, n)
    THEN Outcome(G, "NetworkXError", <<>>)
    ELSE Outcome([nodes |-> Without(G.nodes, n),
                  node |-> [m \in DOMAIN G.node \ {n} |-> G.node[m]],
                  edge |-> [e \in {x \in DOMAIN G.edge : x[1] # n /\ x[2] # n}
                                |-> G.edge[e]]],
                 "ok", <<>>)

\* "ok" when both assertions pass.
_check_node_attributes(G, node_id, attribute) ==
    IF attribute \notin _node_attrs THEN "AssertionError"
    ELSE IF ~HasNode(G, node_id) THEN "AssertionError"
    ELSE "ok"

_check_edge_attributes(G, source, target, attribute) ==
    IF attribute \notin _edge_attrs THEN "AssertionError"
    ELSE IF ~HasEdge(G, source, target) THEN "AssertionError"
    ELSE "ok"

\* G.node[node_id][attribute]: a KeyError when the dictionary lacks the key.
gna(G, node_id, attribute) ==
    LET chk == _check_node_attributes(G, node_id, attribute)
    IN IF chk # "ok" THEN Outcome(G, chk, <<>>)
       ELSE IF attribute \notin DOMAIN G.node[node_id]
       THEN Outcome(G, "KeyError", <<>>)
       ELSE Outcome(G, "ok", G.node[node_id][attribute])

\* dictionary assignment d[k] = v
SetKey(d, k, v) == [x \in DOMAIN d \cup {k} |-> IF x = k THEN v ELSE d[x]]

sna_unchecked(G, node_id, attribute, value) ==
    IF ~HasNode(G, node_id) THEN Outcome(G, "KeyError", <<>>)
    ELSE Outcome([G EXCEPT !.node[node_id] = SetKey(@, attribute, value)],
                 "ok", <<>>)

sna_replace(G, node_id, attribute, value) ==
    LET chk == _check_node_attributes(G, node_id, attribute)
    IN IF chk # "ok" THEN Outcome(G, chk, <<>>)
       ELSE Outcome([G EXCEPT !.node[node_id] = [x \in {attribute} |-> value]],
                    "ok", <<>>)

sna(G, node_id, attribute, value) ==
    LET chk == _check_node_attributes(G, node_id, attribute)
    IN IF chk # "ok" THEN Outcome(G, chk, <<>>)
       ELSE Outcome([G EXCEPT !.node[node_id] = SetKey(@, attribute, value)],
                    "ok", <<>>)

gea(G, source, target, attribute) ==
    LET chk == _check_edge_attributes(G, source, target, attribute)
    IN IF chk # "ok" THEN Outcome(G, chk, <<>>)
       ELSE IF attribute \notin DOMAIN G.edge[<<source, target>>]
       THEN Outcome(G, "KeyError", <<>>)
       ELSE Outcome(G, "ok", G.edge[<<source, target>>][attribute])

sea(G, source, target, attribute, value) ==
    LET chk == _check_edge_attributes(G, source, target, attribute)
    IN IF chk # "ok" THEN Outcome(G, chk, <<>>)
       ELSE Outcome([G EXCEPT !.edge[<<source, target>>] =
                         SetKey(@, attribute, value)],
                    "ok", <<>>)

\* [self.gna(n, name) for n in self.nodes]: the first gna that raises ends
\* the comprehension with its error.
get_signal(G, name) ==
    IF name \notin {"cost", "policy", "priority", "V", "Q"}
    THEN Outcome(G, "AssertionError", <<>>)
    ELSE LET each == [i \in 1..Len(G.nodes) |-> gna(G, G.nodes[i], name)]
             bad == {i \in 1..Len(G.nodes) : each[i].out # "ok"}
         IN IF bad = {}
            THEN Outcome(G, "ok", [i \in 1..Len(G.nodes) |-> each[i].res])
            ELSE Outcome(G, each[CHOOSE i \in bad : \A j \in bad : i <= j].out,
                         <<>>)

----------------------------------------------------------------------------
(* StateGraph: neighbour queries                                           *)

\* eud(data1, data2) squared.  eud is the square root of this sum over the
\* first two components only; the square root is strictly increasing, so
\* comparing squares orders and ties distances exactly as eud does, and
\* eud(a, b) <= d is eud_squared(a, b) <= d*d for d >= 0.
eud_squared(data1, data2) ==
    (data1[1] - data2[1]) * (data1[1] - data2[1])
        + (data1[2] - data2[2]) * (data1[2] - data2[2])

\* How eud(self.gna(n, 'data'), other) ends for node n: gna's error, or an
\* IndexError when the stored data has fewer than two components.
DataError(G, n) ==
    LET r == gna(G, n, "data")
    IN IF r.out # "ok" THEN r.out
       ELSE IF Len(r.res) < 2 THEN "IndexError"
       ELSE "ok"

\* The first error met while a query walks the nodes in seq, or "ok".
FirstDataError(G, seq) ==
    LET bad == {i \in 1..Len(seq) : DataError(G, seq[i]) # "ok"}
    IN IF bad = {} THEN "ok"
       ELSE DataError(G, seq[CHOOSE i \in bad : \A j \in bad : i <= j])

find_neighbors_from_pose(G, loc, distance) ==
    LET err == FirstDataError(G, G.nodes)
    IN IF err # "ok" THEN Outcome(G, err, <<>>)
       ELSE Outcome(G, "ok",
                SelectSeq(G.nodes, LAMBDA n :
                    /\ distance >= 0
                    /\ eud_squared(G.node[n]["data"], loc)
                           <= distance * distance))

\* set(self.G.nodes()) - {nid}
serch_set(G, nid) == Range(G.nodes) \ {nid}

\* order is the order in which Python iterates serch_set: a set's iteration
\* order is not specified, so the callers choose it freely.
find_neighbors_range(G, nid, distance, order) ==
    LET cn == gna(G, nid, "data")
        err == FirstDataError(G, <<nid>> \o order)
    IN IF cn.out # "ok" THEN Outcome(G, cn.out, <<>>)
       ELSE IF err # "ok" THEN Outcome(G, err, <<>>)
       ELSE Outcome(G, "ok",
                SelectSeq(order, LAMBDA n :
                    /\ distance >= 0
                    /\ eud_squared(G.node[n]["data"], cn.res)
                           <= distance * distance))

\* sorted(items) without the key: tuples compare by their first component,
\* the node identifier.
RECURSIVE sorted_nokey(_)
sorted_nokey(items) ==
    IF items = <<>> THEN <<>>
    ELSE LET init == sorted_nokey(SubSeq(items, 1, Len(items) - 1))
             x == items[Len(items)]
             pos == Cardinality({i \in 1..Len(init) : init[i][1] <= x[1]})
         IN SubSeq(init, 1, pos) \o <<x>> \o SubSeq(init, pos + 1, Len(init))

\* sorted(items, key=lambda x: x[1]) for items of (node, distance) pairs:
\* Python's sort is stable, so every item lands behind the earlier items
\* whose key is not larger.
RECURSIVE sorted(_)
sorted(items) ==
    IF items = <<>> THEN <<>>
    ELSE LET init == sorted(SubSeq(items, 1, Len(items) - 1))
             x == items[Len(items)]
             pos == Cardinality({i \in 1..Len(init) : init[i][2] <= x[2]})
         IN SubSeq(init, 1, pos) \o <<x>> \o SubSeq(init, pos + 1, Len(init))

\* order is the iteration order of serch_set, which the dictionary
\* `distances` inherits.
find_neighbors_k(G, nid, k, order) ==
    LET cn == gna(G, nid, "data")
        err == FirstDataError(G, <<nid>> \o order)
    IN IF cn.out # "ok" THEN Outcome(G, cn.out, <<>>)
       ELSE IF err # "ok" THEN Outcome(G, err, <<>>)
       ELSE LET distances == [i \in 1..Len(order) |->
                                 <<order[i],
                                   eud_squared(G.node[order[i]]["data"], cn.res)>>]
                sorted_neighbors == sorted(distances)
                k_neighbors == Take(sorted_neighbors, k)
            IN Outcome(G, "ok",
                   [i \in 1..Len(k_neighbors) |-> k_neighbors[i][1]])

----------------------------------------------------------------------------
(* The StateGraph's callers: every public call, with inputs from small sets *)

DataInputs == {<<0, 0>>, <<1, 1>>, <<0>>}       \* the last has a bad length
DurationInputs == {0, -1}
TrajInputs == {[ndim |-> 2], [ndim |-> 1]}
NodeAttrInputs == {"data", "V", "policy"}        \* the last is not allowed
EdgeAttrInputs == {"reward", "source", "weight"} \* the last is not allowed
SnaInputs == {<<"data", <<1>>>>, <<"V", 1>>, <<"policy", 1>>}
SeaInputs == {<<"reward", 1>>, <<"weight", 1>>}
SignalInputs == {"cost", "policy", "priority", "V", "Q", "data"}

NoCall == [op |-> "none", args |-> <<>>, out |-> "ok", res |-> <<>>]

\* The StateGraph is used by one caller at a time: a call starts when no
\* call is in progress, and last holds how it ended until the caller has
\* taken the result.
Ready == last.op = "none"

Call(op, args, r) ==
    /\ \E done \in {r} :
          /\ graph' = done.g
          /\ last' = [op |-> op, args |-> args, out |-> done.out,
                      res |-> done.res]
    /\ UNCHANGED <<pw, sv, qe>>

\* The caller takes the result (or catches the error) and goes on.
Return ==
    /\ last.op # "none"
    /\ last' = NoCall
    /\ UNCHANGED <<graph, pw, sv, qe>>

AddNode ==
    /\ Ready
    /\ \E nid \in NodeIds, data \in DataInputs :
           Call("add_node", <<nid, data>>,
                add_node(graph, nid, data, 0, 0, <<>>, 0, 0, "simple"))

AddEdge ==
    /\ Ready
    /\ \E s \in NodeIds, t \in NodeIds, d \in DurationInputs, tr \in TrajInputs :
           Call("add_edge", <<s, t, d, tr>>,
                add_edge(graph, s, t, d, 0, <<1>>, tr))

RemoveEdge ==
    /\ Ready
    /\ \E s \in NodeIds, t \in NodeIds :
           Call("remove_edge", <<s, t>>, remove_edge(graph, s, t))

RemoveNode ==
    /\ Ready
    /\ \E n \in NodeIds : Call("remove_node", <<n>>, remove_node(graph, n))

Gna ==
    /\ Ready
    /\ \E n \in NodeIds, a \in NodeAttrInputs :
           Call("gna", <<n, a>>, gna(graph, n, a))

Sna ==
    /\ Ready
    /\ \E n \in NodeIds, av \in SnaInputs :
           Call("sna", <<n, av[1], av[2]>>, sna(graph, n, av[1], av[2]))

Gea ==
    /\ Ready
    /\ \E s \in NodeIds, t \in NodeIds, a \in EdgeAttrInputs :
           Call("gea", <<s, t, a>>, gea(graph, s, t, a))

Sea ==
    /\ Ready
    /\ \E s \in NodeIds, t \in NodeIds, av \in SeaInputs :
           Call("sea", <<s, t, av[1], av[2]>>, sea(graph, s, t, av[1], av[2]))

GetSignal ==
    /\ Ready
    /\ \E name \in SignalInputs :
           Call("get_signal", <<name>>, get_signal(graph, name))

Init ==
    /\ graph = EmptyGraph
    /\ last = NoCall
    /\ pw = Idle
    /\ sv = Idle
    /\ qe = Idle

Next ==
    \/ AddNode
    \/ AddEdge
    \/ RemoveEdge
    \/ RemoveNode
    \/ Gna
    \/ Sna
    \/ Gea
    \/ Sea
    \/ GetSignal
    \/ Return

Spec == Init /\ [][Next]_vars

----------------------------------------------------------------------------
(* Claims about the StateGraph, checked under Spec                         *)

Errors == {"AssertionError", "KeyError", "NetworkXError"}

\* The step is an add that conflicts with the graph it starts from.
ConflictingAdd ==
    \/ /\ last'.op = "add_edge"
       /\ \/ last'.args[1] = last'.args[2]
          \/ HasEdge(graph, last'.args[1], last'.args[2])
    \/ /\ last'.op = "add_node"
       /\ HasNode(graph, last'.args[1])

\* C4: add_edge with source == target, add_edge for an ordered pair that
\* already has an edge and add_node for an identifier already present leave
\* the nodes, the edges and every stored attribute as they were, and no
\* reachable graph holds a self-loop edge.
C4_ConflictingAddIsNoOp ==
    /\ [][ConflictingAdd => graph' = graph]_vars
    /\ [](\A e \in DOMAIN graph.edge : e[1] # e[2])

\* A self-loop add was just refused, with a warning, on a graph that holds
\* an edge whose reward was rewritten since it was added.
C4_Witness ==
    /\ last.op = "add_edge"
    /\ last.args[1] = last.args[2]
    /\ last.out = "warning"
    /\ \E e \in DOMAIN graph.edge : graph.edge[e].reward = 1

\* The step is an attribute access naming an attribute outside the
\* allow-list, or a node or edge that is not in the graph it starts from.
InvalidAccess ==
    \/ /\ last'.op \in {"gna", "sna"}
       /\ \/ last'.args[2] \notin _node_attrs
          \/ ~HasNode(graph, last'.args[1])
    \/ /\ last'.op \in {"gea", "sea"}
       /\ \/ last'.args[3] \notin _edge_attrs
          \/ ~HasEdge(graph, last'.args[1], last'.args[2])

\* C5: gna, sna, gea and sea called with an attribute name outside the
\* allow-list, or for a node or edge that is not in the graph, fail with the
\* validation's error and leave the graph as it was.
C5_InvalidAccessFails ==
    [][InvalidAccess =>
          /\ last'.out = "AssertionError"
          /\ last'.res = <<>>
          /\ graph' = graph]_vars

\* sna was just refused for the name "policy" on a node that is in the graph.
C5_Witness ==
    /\ last.op = "sna"
    /\ last.args[2] = "policy"
    /\ HasNode(graph, last.args[1])
    /\ last.out = "AssertionError"

\* The step is sna(n, a, v) for a node in the graph and an allowed name.
ValidSna(n, a, v) ==
    /\ last'.op = "sna"
    /\ last'.args = <<n, a, v>>
    /\ HasNode(graph, n)
    /\ a \in _node_attrs

\* C6: for a node in the graph and an allow-listed name, sna(n, a, v)
\* followed by gna(n, a) returns v, and the set changes no other attribute
\* of that node and no attribute of any other node or edge.
C6_SnaGnaRoundTrip ==
    [][\A n \in NodeIds, av \in SnaInputs :
          ValidSna(n, av[1], av[2]) =>
              /\ last'.out = "ok"
              /\ gna(graph', n, av[1]).out = "ok"
              /\ gna(graph', n, av[1]).res = av[2]
              /\ graph'.nodes = graph.nodes
              /\ graph'.edge = graph.edge
              /\ \A m \in Range(graph.nodes) \ {n} :
                    graph'.node[m] = graph.node[m]
              /\ DOMAIN graph'.node[n] = DOMAIN graph.node[n] \cup {av[1]}
              /\ \A b \in DOMAIN graph.node[n] \ {av[1]} :
                    graph'.node[n][b] = graph.node[n][b]]_vars

\* sna has just rewritten the data of a node that add_node created, in a
\* graph with a second node and an edge.
C6_Witness ==
    /\ last.op = "sna"
    /\ last.out = "ok"
    /\ last.args[2] = "data"
    /\ graph.node[last.args[1]]["data"] = last.args[3]
    /\ DOMAIN graph.node[last.args[1]] = _node_attrs
    /\ Len(graph.nodes) = 2
    /\ graph.edge # <<>>

\* C7: in every reachable graph, every node carries a data vector of length
\* state_dim.
C7_DataLengthIsStateDim ==
    \A n \in Range(graph.nodes) :
        /\ "data" \in DOMAIN graph.node[n]
        /\ Len(graph.node[n]["data"]) = state_dim

\* Every node of the graph has the seven attributes add_node stores.
AllAddedByAddNode == \A n \in Range(graph.nodes) : DOMAIN graph.node[n] = _node_attrs

\* The node attribute a signal name stands for.
SignalAttr(name) == IF name = "policy" THEN "pi" ELSE name

\* C10: on a graph whose nodes were all added with add_node, get_signal
\* succeeds for cost, policy, priority, V and Q with one value per node in
\* node order (the node's pi for policy), and rejects any other name.
C10_GetSignalFiveNames ==
    (last.op = "get_signal" /\ AllAddedByAddNode) =>
        IF last.args[1] \in {"cost", "policy", "priority", "V", "Q"}
        THEN /\ last.out = "ok"
             /\ Len(last.res) = Len(graph.nodes)
             /\ \A i \in 1..Len(graph.nodes) :
                   last.res[i] = graph.node[graph.nodes[i]][SignalAttr(last.args[1])]
        ELSE last.out = "AssertionError"

----------------------------------------------------------------------------
(* SpecNbr: graphs built by add_node and remove_node, and the neighbour    *)
(* queries on them                                                         *)

MaxNodes == 3           \* the callers' node identifiers are 1..MaxNodes
MaxDistance == 2        \* the callers' radii are 0..MaxDistance
NbrNodeIds == 1..MaxNodes
NbrDataInputs == {<<0, 0>>, <<1, 0>>, <<0, 2>>}

NbrAddNode ==
    /\ Ready
    /\ \E nid \in NbrNodeIds, data \in NbrDataInputs :
           Call("add_node", <<nid, data>>,
                add_node(graph, nid, data, 0, 0, <<>>, 0, 0, "simple"))

NbrRemoveNode ==
    /\ Ready
    /\ \E n \in NbrNodeIds : Call("remove_node", <<n>>, remove_node(graph, n))

FindNeighborsFromPose ==
    /\ Ready
    /\ \E loc \in NbrDataInputs, distance \in 0..MaxDistance :
           Call("find_neighbors_from_pose", <<loc, distance>>,
                find_neighbors_from_pose(graph, loc, distance))

FindNeighborsRange ==
    /\ Ready
    /\ \E nid \in NbrNodeIds, distance \in 0..MaxDistance :
         \E order \in Perms(serch_set(graph, nid)) :
           Call("find_neighbors_range", <<nid, distance>>,
                find_neighbors_range(graph, nid, distance, order))

FindNeighborsK ==
    /\ Ready
    /\ \E nid \in NbrNodeIds, k \in 0..MaxNodes :
         \E order \in Perms(serch_set(graph, nid)) :
           Call("find_neighbors_k", <<nid, k>>,
                find_neighbors_k(graph, nid, k, order))

NextNbr ==
    \/ NbrAddNode
    \/ NbrRemoveNode
    \/ FindNeighborsFromPose
    \/ FindNeighborsRange
    \/ FindNeighborsK
    \/ Return

SpecNbr == Init /\ [][NextNbr]_vars

----------------------------------------------------------------------------
(* Claims about the neighbour queries, checked under SpecNbr               *)

\* The squared distance of node n's data to node m's data.
Dist(n, m) == eud_squared(graph.node[n]["data"], graph.node[m]["data"])

\* The nodes other than nid, in the order in which they were added.
OthersInInsertionOrder(nid) == Without(graph.nodes, nid)

\* find_neighbors_k(nid, k) has just returned a list.
KReturned == last.op = "find_neighbors_k" /\ last.out = "ok"

C9_RangeIncludesSelf ==
    (last.op = "find_neighbors_range" /\ last.out = "ok") =>
        /\ last.args[1] \in Range(last.res)
        /\ Range(last.res) =
               {n \in Range(graph.nodes) :
                   Dist(n, last.args[1]) <= last.args[2] * last.args[2]}

----------------------------------------------------------------------------
(* PolicyWalkProposal.__call__                                             *)
(*                                                                         *)
(* Rewards are counted in grains: 1.0 is Grain grains, so the bound        *)
(* -1 <= x <= 1 reads -Grain <= x <= Grain and delta is a whole number of  *)
(* grains.  The two classes differ in the steps they draw from.            *)

Grain == 2              \* grains per unit: coordinates are multiples of 1/Grain
PWDim == 2              \* Proposal.dim
MaxPasses == 2          \* loop passes are counted up to this number

PWVariants == {"base", "graph_birl"}
PWDeltas == 1..(2 * Grain + 1)
PWCoords == (0 - Grain - 1)..(Grain + 1)
PWLocs == [1..PWDim -> PWCoords]

Steps_up_only(variant, delta) == {delta}

\* choice([-self.delta, self.delta]) in birl/base.py,
\* choice([-self.delta, 0, self.delta]) in graph_birl.py
Steps(variant, delta) ==
    IF variant = "base" THEN {0 - delta, delta} ELSE {0 - delta, 0, delta}

within_upper_only(x, d) == x + d <= Grain

\* -1 <= new_loc[i]+d <= 1
within(x, d) == (0 - Grain) <= x + d /\ x + d <= Grain

\* PolicyWalkProposal(dim, delta, bounded)
PWInit ==
    pw \in [pc : {"idle"}, variant : PWVariants, delta : PWDeltas,
            bounded : BOOLEAN, loc : {<<>>}, new_loc : {<<>>}, passes : {0}]

\* __call__(loc): new_loc = np.array(loc); changed = False
PWCall ==
    /\ pw.pc = "idle"
    /\ \E loc \in PWLocs :
          pw' = [pw EXCEPT !.pc = "loop", !.loc = loc, !.new_loc = loc,
                           !.passes = 0]
    /\ UNCHANGED <<graph, last, sv, qe>>

\* One pass of `while not changed`: draw d and i, and move or not.
PWPass ==
    /\ pw.pc = "loop"
    /\ \E d \in Steps(pw.variant, pw.delta), i \in 1..PWDim :
          LET moved == [pw.new_loc EXCEPT ![i] = @ + d]
              n == IF pw.passes < MaxPasses THEN pw.passes + 1 ELSE pw.passes
          IN IF pw.bounded
             THEN IF within(pw.new_loc[i], d)
                  THEN pw' = [pw EXCEPT !.new_loc = moved, !.pc = "returned",
                                        !.passes = n]
                  ELSE pw' = [pw EXCEPT !.passes = n]
             ELSE pw' = [pw EXCEPT !.new_loc = moved, !.pc = "returned",
                                   !.passes = n]
    /\ UNCHANGED <<graph, last, sv, qe>>

\* return new_loc; the proposal object is ready for its next call.
PWReturn ==
    /\ pw.pc = "returned"
    /\ pw' = [pw EXCEPT !.pc = "idle", !.loc = <<>>, !.new_loc = <<>>,
                        !.passes = 0]
    /\ UNCHANGED <<graph, last, sv, qe>>

InitPW ==
    /\ graph = EmptyGraph
    /\ last = NoCall
    /\ PWInit
    /\ sv = Idle
    /\ qe = Idle

NextPW ==
    \/ PWCall
    \/ PWPass
    \/ PWReturn

SpecPW == InitPW /\ [][NextPW]_vars

\* Every coordinate of v lies in [-1, 1].
InBox(v) == \A i \in 1..PWDim : (0 - Grain) <= v[i] /\ v[i] <= Grain

\* The coordinates in which the proposal differs from the input.
Changed == {i \in 1..PWDim : pw.new_loc[i] # pw.loc[i]}

\* C1: a bounded proposal returned for an input in [-1, 1]^dim lies in
\* [-1, 1]^dim and differs from the input in exactly one coordinate, by
\* +delta or -delta, or, in graph_birl.py's class only, in no coordinate.
C1_BoundedProposal ==
    (pw.pc = "returned" /\ pw.bounded /\ InBox(pw.loc)) =>
        /\ InBox(pw.new_loc)
        /\ \/ \E i \in 1..PWDim :
                 /\ Changed = {i}
                 /\ \/ pw.new_loc[i] = pw.loc[i] + pw.delta
                    \/ pw.new_loc[i] = pw.loc[i] - pw.delta
           \/ pw.variant = "graph_birl" /\ Changed = {}

\* A bounded proposal has returned, after a rejected pass, for an input on
\* the upper bound in one coordinate, and has moved that coordinate down.
C1_Witness ==
    /\ pw.pc = "returned"
    /\ pw.bounded
    /\ InBox(pw.loc)
    /\ pw.passes >= 2
    /\ \E i \in 1..PWDim : pw.loc[i] = Grain /\ pw.new_loc[i] = Grain - pw.delta

----------------------------------------------------------------------------
(* The BIRL solvers: construction and solve()                              *)
(*                                                                         *)
(* Two families: GeneratingTrajectoryBIRL (birl/base.py) and GBIRL         *)
(* (graph_birl.py).  Rewards, policies and trajectory batches are named by *)
(* the call that produced them; every collaborator call returns.           *)

MaxIter == 3            \* the callers' max_iter is at most this
WarnAbove == 1000       \* max_iter above this draws a warning

SolverClasses == {"GeneratingTrajectoryBIRL", "GBIRL"}
MaxIterInputs == ((0 - 1)..MaxIter) \cup {WarnAbove, WarnAbove + 1}
BetaInputs == {0, 7, 10, 11}        \* beta (alpha for GBIRL) in tenths

NewSolver == [pc |-> "new"]

\* The reward returned by initialize_reward (_initial_reward in GBIRL).
InitialReward == [src |-> "initialize_reward", it |-> 0]

\* The reward returned by find_next_reward in loop pass it (from 1).
NextReward(it) == [src |-> "find_next_reward", it |-> it]

\* GeneratingTrajectoryBIRL.__init__ after BIRL.__init__: both assert.
GeneratingTrajectoryBIRL_init(beta, max_iter) ==
    IF ~(0 < beta /\ beta <= 10) THEN [pc |-> "AssertionError"]
    ELSE IF ~(0 < max_iter) THEN [pc |-> "AssertionError"]
    ELSE [pc |-> "constructed", cls |-> "GeneratingTrajectoryBIRL",
          beta |-> beta, max_iter |-> max_iter,
          warned |-> (max_iter > WarnAbove)]

\* GBIRL.__init__ stores alpha and max_iter as given.
GBIRL_init(alpha, max_iter) ==
    [pc |-> "constructed", cls |-> "GBIRL", beta |-> alpha,
     max_iter |-> max_iter, warned |-> FALSE]

Construct ==
    /\ sv.pc = "new"
    /\ \E cls \in SolverClasses, beta \in BetaInputs, max_iter \in MaxIterInputs :
          sv' = IF cls = "GBIRL" THEN GBIRL_init(beta, max_iter)
                ELSE GeneratingTrajectoryBIRL_init(beta, max_iter)
    /\ UNCHANGED <<graph, last, pw, qe>>

\* The number of passes `for iteration in range(self._max_iter)` makes.
RangeLen(max_iter) == IF max_iter > 0 THEN max_iter ELSE 0

\* solve() up to the loop.  GeneratingTrajectoryBIRL: reward =
\* initialize_reward(); g_trajs = [deepcopy(self._demos)].  GBIRL: reward =
\* _initial_reward(); pi0 = _compute_policy(reward); g_trajs = the rollout.
\*   iteration    loop passes completed
\*   g_trajs      the batches find_next_reward is given, by their origin
\*   edge_rewards the reward the graph's edge rewards were last derived from
\*   policy       the reward the graph's policy was last solved under
SolveStart ==
    /\ sv.pc = "constructed"
    /\ sv' = [pc |-> "loop", cls |-> sv.cls, beta |-> sv.beta,
              max_iter |-> sv.max_iter, warned |-> sv.warned,
              iteration |-> 0, reward |-> InitialReward,
              g_trajs |-> IF sv.cls = "GBIRL"
                          THEN <<[src |-> "rollout", it |-> 0]>>
                          ELSE <<[src |-> "demos", it |-> 0]>>,
              edge_rewards |-> IF sv.cls = "GBIRL" THEN <<InitialReward>>
                               ELSE <<>>,
              policy |-> IF sv.cls = "GBIRL" THEN <<InitialReward>> ELSE <<>>,
              passed |-> <<>>]
    /\ UNCHANGED <<graph, last, pw, qe>>

\* The loop head: another pass, or return reward.
LoopHead ==
    /\ sv.pc = "loop"
    /\ sv' = IF sv.iteration < RangeLen(sv.max_iter)
             THEN [sv EXCEPT !.pc = "find_next_reward"]
             ELSE [sv EXCEPT !.pc = "returned"]
    /\ UNCHANGED <<graph, last, pw, qe>>

\* reward = self.find_next_reward(g_trajs); passed records what it was given.
FindNextReward ==
    /\ sv.pc = "find_next_reward"
    /\ sv' = [sv EXCEPT !.pc = "update_rewards",
                        !.reward = NextReward(sv.iteration + 1),
                        !.passed = sv.g_trajs]
    /\ UNCHANGED <<graph, last, pw, qe>>

\* _compute_policy, first half: the edge rewards are derived from reward.
UpdateRewards ==
    /\ sv.pc = "update_rewards"
    /\ sv' = [sv EXCEPT !.pc = "policy_iteration",
                        !.edge_rewards = <<sv.reward>>]
    /\ UNCHANGED <<graph, last, pw, qe>>

\* _compute_policy, second half: graph_policy_iteration.
PolicyIteration ==
    /\ sv.pc = "policy_iteration"
    /\ sv' = [sv EXCEPT !.pc = "rollout", !.policy = sv.edge_rewards]
    /\ UNCHANGED <<graph, last, pw, qe>>

\* trajs = find_best_policies(); GeneratingTrajectoryBIRL appends the batch
\* to g_trajs, GBIRL replaces g_trajs by it.  The pass is complete.
Rollout ==
    /\ sv.pc = "rollout"
    /\ LET batch == [src |-> "rollout", it |-> sv.iteration + 1]
       IN sv' = [sv EXCEPT !.pc = "loop",
                           !.iteration = sv.iteration + 1,
                           !.g_trajs = IF sv.cls = "GBIRL" THEN <<batch>>
                                       ELSE Append(sv.g_trajs, batch)]
    /\ UNCHANGED <<graph, last, pw, qe>>

\* A finished or refused solver is dropped and another is constructed.
Again ==
    /\ sv.pc \in {"returned", "AssertionError"}
    /\ sv' = NewSolver
    /\ UNCHANGED <<graph, last, pw, qe>>

InitSolve ==
    /\ graph = EmptyGraph
    /\ last = NoCall
    /\ pw = Idle
    /\ sv = NewSolver
    /\ qe = Idle

NextSolve ==
    \/ Construct
    \/ SolveStart
    \/ LoopHead
    \/ FindNextReward
    \/ UpdateRewards
    \/ PolicyIteration
    \/ Rollout
    \/ Again

SpecSolve == InitSolve /\ [][NextSolve]_vars

\* C2: solve() returns after exactly max_iter loop passes, max_iter being
\* greater than 0, and what it returns is the reward find_next_reward
\* produced in the last pass, never the initial reward.
C2_RunsMaxIterReturnsLast ==
    sv.pc = "returned" =>
        /\ sv.max_iter > 0
        /\ sv.iteration = sv.max_iter
        /\ sv.reward = NextReward(sv.max_iter)

----------------------------------------------------------------------------
(* The trajectory quality evaluator                                        *)
(* (GeneratingTrajectoryBIRL._expert_trajectory_quality and, with the same *)
(* loop body, _generated_trajectory_quality), for one trajectory           *)
(*                                                                         *)
(* gamma is GammaNum/GammaDen and every elapsed time is a whole number of  *)
(* at most TimeCap, so QE is kept as the integer QE * GammaDen^TimeCap.    *)

MaxTrajLen == 3         \* the trajectories have 1..MaxTrajLen nodes
GammaNum == 1           \* self._rep.mdp.gamma, numerator
GammaDen == 2           \* self._rep.mdp.gamma, denominator
gr == 100               \* the terminal value

QNodes == {1, 2, 3}

\* The graphs evaluated on, as G.out_edges(n) for each n, targets in order:
\* the path 1 -> 2 -> 3, a fork into two terminal nodes, a cycle with an exit.
QGraphs == {
    [n \in QNodes |-> CASE n = 1 -> <<2>> [] n = 2 -> <<3>> [] OTHER -> <<>>],
    [n \in QNodes |-> CASE n = 1 -> <<2, 3>> [] OTHER -> <<>>],
    [n \in QNodes |-> CASE n = 1 -> <<2>> [] n = 2 -> <<1, 3>> [] OTHER -> <<>>]}

\* G.gea(s, t, 'phi') and G.gea(s, t, 'duration') of the edges above
QPhi(s, t) == IF t = 3 THEN <<0, 1>> ELSE <<1, 0>>
QDuration(s, t) == IF s < t THEN t - s ELSE 0

QRewards == {<<1, 0>>, <<2, -1>>}
QTrajs == UNION {[1..len -> QNodes] : len \in 1..MaxTrajLen}
\* No elapsed time exceeds this: QDuration is below Cardinality(QNodes).
TimeCap == MaxTrajLen * (Cardinality(QNodes) - 1)

\* The policies of a graph: pi is an index into out_edges (from 0) at every
\* node that has outgoing edges.
QPolicies(out) ==
    {pi \in [QNodes -> 0..1] :
        \A n \in QNodes : pi[n] < Len(out[n]) \/ (out[n] = <<>> /\ pi[n] = 0)}

RECURSIVE Pow(_, _)
Pow(b, e) == IF e = 0 THEN 1 ELSE b * Pow(b, e - 1)

\* (gamma ** time) * GammaDen^TimeCap
Discount(time) == Pow(GammaNum, time) * Pow(GammaDen, TimeCap - time)

\* np.dot(reward, phi)
Dot(u, v) == u[1] * v[1] + u[2] * v[2]

\* time = 0; QE = 0; the for loop is at traj[1].
QInit ==
    \E out \in QGraphs, reward \in QRewards, traj \in QTrajs :
       \E pi \in QPolicies(out) :
          qe = [pc |-> "for", out |-> out, pi |-> pi, reward |-> reward,
                traj |-> traj, i |-> 1, time |-> 0, QE |-> 0]

\* `if actions:` for the node the loop is at
AtEdge == qe.pc = "for" /\ qe.i <= Len(qe.traj) /\ qe.out[qe.traj[qe.i]] # <<>>
AtTerminal == qe.pc = "for" /\ qe.i <= Len(qe.traj) /\ qe.out[qe.traj[qe.i]] = <<>>

\* e = actions[G.gna(n, 'pi')]; r = np.dot(reward, phi);
\* QE += (gamma ** time) * r; time += duration
QFollowEdge ==
    /\ AtEdge
    /\ LET n == qe.traj[qe.i]
           t == qe.out[n][qe.pi[n] + 1]
           r == Dot(qe.reward, QPhi(n, t))
       IN qe' = [qe EXCEPT !.QE = @ + Discount(qe.time) * r,
                           !.time = @ + QDuration(n, t),
                           !.i = @ + 1]
    /\ UNCHANGED <<graph, last, pw, sv>>

\* else: QE += (gamma ** time) * gr; the loop goes on to the next node.
QTerminalNode ==
    /\ AtTerminal
    /\ qe' = [qe EXCEPT !.QE = @ + Discount(qe.time) * gr, !.i = @ + 1]
    /\ UNCHANGED <<graph, last, pw, sv>>

\* The trajectory is exhausted: QEs.append(QE).
QAppend ==
    /\ qe.pc = "for"
    /\ qe.i > Len(qe.traj)
    /\ qe' = [qe EXCEPT !.pc = "done"]
    /\ UNCHANGED <<graph, last, pw, sv>>

InitQuality ==
    /\ graph = EmptyGraph
    /\ last = NoCall
    /\ pw = Idle
    /\ sv = Idle
    /\ QInit

NextQuality ==
    \/ QFollowEdge
    \/ QTerminalNode
    \/ QAppend

SpecQuality == InitQuality /\ [][NextQuality]_vars

\* The quality the claim gives the nodes traj[i..] from elapsed time `time`:
\* follow pi's edge at a node with outgoing edges, and at the first terminal
\* node add the discounted terminal value once and stop.
RECURSIVE ClaimedQuality(_, _)
ClaimedQuality(i, time) ==
    IF i > Len(qe.traj) THEN 0
    ELSE LET n == qe.traj[i]
         IN IF qe.out[n] = <<>> THEN Discount(time) * gr
            ELSE LET t == qe.out[n][qe.pi[n] + 1]
                 IN Discount(time) * Dot(qe.reward, QPhi(n, t))
                        + ClaimedQuality(i + 1, time + QDuration(n, t))

\* C3: the quality of a trajectory is the discounted reward of pi's edges at
\* its nodes up to the first terminal node, plus the discounted terminal
\* value added once there; nodes after a terminal node contribute nothing.
C3_StopsAtFirstTerminal ==
    qe.pc = "done" => qe.QE = ClaimedQuality(1, 0)

\* The part of C3 that holds: a trajectory of one terminal node has
\* quality gr, undiscounted.
C3_SingleTerminalNode ==
    (qe.pc = "done" /\ Len(qe.traj) = 1 /\ qe.out[qe.traj[1]] = <<>>) =>
        qe.QE = gr * Pow(GammaDen, TimeCap)

----------------------------------------------------------------------------
(* remove_edge on a self-loop                                              *)

\* C11: remove_edge(source, target) with source == target ends in a warning
\* and no error, and leaves the graph as it was.
C11_SelfLoopRemoveIsBenign ==
    [][(last'.op = "remove_edge" /\ last'.args[1] = last'.args[2]) =>
           (graph' = graph /\ last'.out = "warning")]_vars

----------------------------------------------------------------------------
(* Construction of the solvers                                             *)

\* A solver object exists: construction has succeeded.
Constructed == sv.pc \notin {"new", "AssertionError"}

\* C12: every solver object that exists has beta in (0, 1] and max_iter > 0,
\* whatever its class, and has been warned about exactly when max_iter is
\* above 1000.
C12_ConstructionFailsFast ==
    Constructed =>
        /\ 0 < sv.beta /\ sv.beta <= 10
        /\ 0 < sv.max_iter
        /\ sv.warned = (sv.max_iter > WarnAbove)

----------------------------------------------------------------------------
(* GBIRLPolicyWalk.initialize_reward                                       *)
(*                                                                         *)
(* reward_max and step_size are whole numbers of a common unit, so the     *)
(* grid np.arange builds is computed exactly.  The solver object is sv.    *)

MaxRmax == 2            \* reward_max is 1..MaxRmax units
MaxStep == 3            \* step_size is 1..MaxStep units
MaxRDim == 2            \* self._mdp._reward.dim is 1..MaxRDim

\* ceil(a / b) for b > 0
CeilDiv(a, b) == (a + b - 1) \div b

\* np.arange(start, stop, step) for step > 0: start + k*step for every
\* k from 0 below ceil((stop - start) / step).
arange(start, stop, step) ==
    LET len == IF stop > start THEN CeilDiv(stop - start, step) ELSE 0
    IN [k \in 1..len |-> start + (k - 1) * step]

\* GBIRLPolicyWalk.__init__: self._delta = step_size; self._rmax = reward_max
IRInit ==
    sv \in [pc : {"constructed"}, rmax : 1..MaxRmax, delta : 1..MaxStep,
            rdim : 1..MaxRDim, v : {<<>>}, reward : {<<>>}, i : {0}]

\* initialize_reward up to the loop: v = np.arange(-rmax, rmax+delta, delta);
\* reward = np.zeros(rdim)
IRCall ==
    /\ sv.pc = "constructed"
    /\ sv' = [sv EXCEPT !.pc = "for",
                        !.v = arange(0 - sv.rmax, sv.rmax + sv.delta, sv.delta),
                        !.reward = [j \in 1..sv.rdim |-> 0],
                        !.i = 0]
    /\ UNCHANGED <<graph, last, pw, qe>>

\* One pass of the loop: reward[i] = np.random.choice(v)
IRChoice ==
    /\ sv.pc = "for"
    /\ sv.i < sv.rdim
    /\ \E x \in Range(sv.v) :
          sv' = [sv EXCEPT !.reward[sv.i + 1] = x, !.i = @ + 1]
    /\ UNCHANGED <<graph, last, pw, qe>>

\* return reward
IRReturn ==
    /\ sv.pc = "for"
    /\ sv.i = sv.rdim
    /\ sv' = [sv EXCEPT !.pc = "returned"]
    /\ UNCHANGED <<graph, last, pw, qe>>

InitIR ==
    /\ graph = EmptyGraph
    /\ last = NoCall
    /\ pw = Idle
    /\ IRInit
    /\ qe = Idle

NextIR ==
    \/ IRCall
    \/ IRChoice
    \/ IRReturn

SpecInitReward == InitIR /\ [][NextIR]_vars

\* x is a point -rmax + k*delta of the grid, k a natural number.
OnGrid(x) ==
    /\ x >= 0 - sv.rmax
    /\ (x + sv.rmax) % sv.delta = 0

\* C13: the vector initialize_reward returns has the reward dimension for
\* length, and every coordinate is a grid point -r_max + k*step_size that
\* lies in [-r_max, r_max].
C13_InitialRewardInBox ==
    sv.pc = "returned" =>
        /\ Len(sv.reward) = sv.rdim
        /\ \A j \in 1..sv.rdim :
              /\ OnGrid(sv.reward[j])
              /\ 0 - sv.rmax <= sv.reward[j]
              /\ sv.reward[j] <= sv.rmax

\* What does hold of the result: grid points in [-r_max, r_max + step_size).
C13_InitialRewardBelowStop ==
    sv.pc = "returned" =>
        /\ Len(sv.reward) = sv.rdim
        /\ \A j \in 1..sv.rdim :
              /\ OnGrid(sv.reward[j])
              /\ sv.reward[j] < sv.rmax + sv.delta

----------------------------------------------------------------------------
(* The reward priors' __call__, in birl/base.py and in graph_birl.py       *)
(*                                                                         *)
(* A batch r is a sequence of whole numbers.  sigma is taken so that the   *)
(* exponentials are powers of 1/2: exp(-x^2 / (2 sigma^2)) = 2^-(x^2) for  *)
(* the Gaussian prior (sigma = 1/sqrt(2 ln 2)) and exp(-|x| / (2 sigma)) = *)
(* 2^-|x| for the Laplacian prior (sigma = 1/(2 ln 2)).  A result is       *)
(*   [coef, w, den]: the values coef * w[i] / den,                         *)
(* coef being 1 ("one") or the constant factor of the density, which is    *)
(* irrational and known by the interval [lo/den, hi/den] it lies in.       *)

MaxBatch == 2           \* a batch has 1..MaxBatch entries
MaxR == 2               \* the entries are -MaxR..MaxR

PriorModules == {"birl/base.py", "graph_birl.py"}
PriorVariants == {"uniform", "gaussian", "laplace"}
Batches == UNION {[1..len -> (0 - MaxR)..MaxR] : len \in 1..MaxBatch}

\* sigma / sqrt(2 pi) for the Gaussian prior, 1 / (2 sigma) for the
\* Laplacian prior, at the sigma above
Coef(c) ==
    IF c = "gauss" THEN [lo |-> 3388, hi |-> 3389, den |-> 10000]
    ELSE [lo |-> 6931, hi |-> 6932, den |-> 10000]

RECURSIVE SeqSum(_)
SeqSum(w) == IF w = <<>> THEN 0 ELSE w[1] + SeqSum(Tail(w))

Abs(x) == IF x < 0 THEN 0 - x ELSE x

\* birl/base.py: rp = np.ones(r.shape[0]); rp / np.sum(rp).
\* graph_birl.py: return r
UniformRewardPrior(module, r) ==
    IF module = "birl/base.py"
    THEN [coef |-> "one", w |-> [i \in 1..Len(r) |-> 1], den |-> Len(r)]
    ELSE [coef |-> "one", w |-> r, den |-> 1]

\* rp = np.exp(-np.square(r)/(2.0*sigma**2)) / np.sqrt(2.0*np.pi)*sigma;
\* birl/base.py returns rp / np.sum(rp), graph_birl.py returns rp.
GaussianRewardPrior(module, r) ==
    LET w == [i \in 1..Len(r) |-> Pow(2, MaxR * MaxR - r[i] * r[i])]
    IN IF module = "birl/base.py"
       THEN [coef |-> "one", w |-> w, den |-> SeqSum(w)]
       ELSE [coef |-> "gauss", w |-> w, den |-> Pow(2, MaxR * MaxR)]

\* rp = np.exp(-np.fabs(r)/(2.0*sigma)) / (2.0*sigma);
\* birl/base.py returns rp / np.sum(rp), graph_birl.py returns rp.
LaplacianRewardPrior(module, r) ==
    LET w == [i \in 1..Len(r) |-> Pow(2, MaxR - Abs(r[i]))]
    IN IF module = "birl/base.py"
       THEN [coef |-> "one", w |-> w, den |-> SeqSum(w)]
       ELSE [coef |-> "laplace", w |-> w, den |-> Pow(2, MaxR)]

prior_call(module, variant, r) ==
    CASE variant = "uniform" -> UniformRewardPrior(module, r)
      [] variant = "gaussian" -> GaussianRewardPrior(module, r)
      [] OTHER -> LaplacianRewardPrior(module, r)

\* prior(r) for a prior of either module and a batch r
PriorCall ==
    /\ Ready
    /\ \E module \in PriorModules, variant \in PriorVariants, r \in Batches :
          Call("prior", <<module, variant, r>>,
               Outcome(graph, "ok", prior_call(module, variant, r)))

InitPrior ==
    /\ graph = EmptyGraph
    /\ last = NoCall
    /\ pw = Idle
    /\ sv = Idle
    /\ qe = Idle

NextPrior ==
    \/ PriorCall
    \/ Return

SpecPrior == InitPrior /\ [][NextPrior]_vars

\* The values of a result can sum to 1: exactly, when the factor is 1, and
\* for some factor in the interval otherwise.
SumsToOne(res) ==
    IF res.coef = "one" THEN SeqSum(res.w) = res.den
    ELSE /\ Coef(res.coef).lo * SeqSum(res.w) <= res.den * Coef(res.coef).den
         /\ res.den * Coef(res.coef).den <= Coef(res.coef).hi * SeqSum(res.w)

\* Every value of a result is 1/n.
AllEqual(res, n) ==
    res.coef = "one" /\ \A i \in 1..Len(res.w) : res.w[i] * n = res.den

\* C14: the values a prior returns for a batch sum to 1, whichever the
\* variant and the module, and the uniform prior's values are all
\* 1/len(r).
C14_PriorSumsToOne ==
    last.op = "prior" =>
        /\ Len(last.res.w) = Len(last.args[3])
        /\ SumsToOne(last.res)
        /\ last.args[2] = "uniform" => AllEqual(last.res, Len(last.args[3]))

\* What holds: the priors of birl/base.py are normalised.
C14_BasePriorSumsToOne ==
    (last.op = "prior" /\ last.args[1] = "birl/base.py") =>
        /\ Len(last.res.w) = Len(last.args[3])
        /\ SumsToOne(last.res)
        /\ last.args[2] = "uniform" => AllEqual(last.res, Len(last.args[3]))

\* No prior of graph_birl.py sums to 1 on a batch of one zero.
C14_GraphPriorOnZero ==
    (last.op = "prior" /\ last.args[1] = "graph_birl.py"
        /\ last.args[3] = <<0>>) => ~SumsToOne(last.res)

----------------------------------------------------------------------------
(* The order of the steps of solve()                                       *)

\* C15: find_next_reward is called only on a graph whose edge rewards and
\* policy were computed from the current reward, and the policy is rolled
\* out only after it was solved under the edge rewards of the current
\* reward.
C15_PolicyBeforeNextReward ==
    /\ sv.pc = "find_next_reward" =>
          (sv.edge_rewards = <<sv.reward>> /\ sv.policy = <<sv.reward>>)
    /\ sv.pc = "rollout" =>
          (sv.edge_rewards = <<sv.reward>> /\ sv.policy = <<sv.reward>>)

\* What holds in both classes: within a loop pass the edge rewards are
\* derived from the new reward, then the policy is solved, then rolled out.
C15_RolloutAfterPolicy ==
    sv.pc = "rollout" =>
        (sv.edge_rewards = <<sv.reward>> /\ sv.policy = <<sv.reward>>)

----------------------------------------------------------------------------
(* The generated-trajectory history of GeneratingTrajectoryBIRL.solve      *)

\* find_next_reward has just been called by a GeneratingTrajectoryBIRL.
HistoryPassed ==
    sv.pc = "update_rewards" /\ sv.cls = "GeneratingTrajectoryBIRL"

\* C17: the history find_next_reward is given after k completed loop passes
\* holds k batches, the j-th being the rollout of pass j and none the expert
\* demonstrations.
C17_HistoryIsRolloutsOnly ==
    HistoryPassed =>
        /\ Len(sv.passed) = sv.iteration
        /\ \A j \in 1..Len(sv.passed) :
              sv.passed[j] = [src |-> "rollout", it |-> j]

\* What holds: the history starts with the copy of the demonstrations,
\* followed by one rollout per completed pass, in order.
C17_HistoryStartsWithDemos ==
    HistoryPassed =>
        /\ Len(sv.passed) = sv.iteration + 1
        /\ sv.passed[1] = [src |-> "demos", it |-> 0]
        /\ \A j \in 2..Len(sv.passed) :
              sv.passed[j] = [src |-> "rollout", it |-> j - 1]

----------------------------------------------------------------------------
(* Termination of PolicyWalkProposal.__call__                              *)

\* A pass of the loop whose draw is accepted.
PWAccept == PWPass /\ pw'.pc = "returned"

\* choice and randint draw every step and every index with positive
\* probability in every pass, so a draw that stays possible is made.
SpecPWFair == SpecPW /\ WF_vars(PWAccept)

\* Some index and some step of the variant keep that coordinate of the
\* input in [-1, 1].
Acceptable ==
    \E i \in 1..PWDim :
       \E d \in {0 - pw.delta, pw.delta}
                   \cup (IF pw.variant = "graph_birl" THEN {0} ELSE {}) :
          (0 - Grain) <= pw.loc[i] + d /\ pw.loc[i] + d <= Grain

\* C16: a bounded call returns if some index and step keep the coordinate
\* in [-1, 1], and never returns if none does; so it returns for every
\* input in [-1, 1]^dim when 0 < delta <= 1.  An unbounded call returns
\* after exactly one pass of the loop.
C16_ReturnsIffAcceptable ==
    /\ (pw.pc = "loop" /\ (Acceptable \/ ~pw.bounded)) ~> (pw.pc = "returned")
    /\ [][(pw.pc = "loop" /\ pw.bounded /\ ~Acceptable) => pw'.pc = "loop"]_vars
    /\ []((pw.pc = "loop" /\ pw.bounded /\ InBox(pw.loc) /\ pw.delta <= Grain)
             => Acceptable)
    /\ []((pw.pc = "returned" /\ ~pw.bounded) => pw.passes = 1)

\* A bounded call of birl/base.py's class on an input in the box with
\* delta > 2 has been rejected MaxPasses times and is still in the loop.
C16_Witness ==
    /\ pw.pc = "loop"
    /\ pw.bounded
    /\ pw.variant = "base"
    /\ InBox(pw.loc)
    /\ pw.delta > 2 * Grain
    /\ ~Acceptable
    /\ pw.passes = MaxPasses

====
